---- MODULE Spec2Model ----
(***************************************************************************)
(* EchoScribe transcription pipeline: MemoryBuffer (src/src/buffer.py),    *)
(* MergeManager (src/src/merge.py) and SystemManager (src/src/engine.py).  *)
(*                                                                         *)
(* Every thread of the program is a record th[t] holding its program       *)
(* counter, its stack of return labels and the locals of the method it is  *)
(* running.  One action is one atomic step of the code: a queue.Queue      *)
(* operation (the queue has its own mutex), or a critical section of       *)
(* MemoryBuffer._lock.                                                     *)
(***************************************************************************)
EXTENDS Integers, Sequences, FiniteSets, TLC

VARIABLES
    max_fragments,  \* MemoryBuffer.max_fragments, the capacity of _q
    _map,       \* MemoryBuffer._map: an ordered dict, a sequence of <<seq, text>>
    _q,         \* MemoryBuffer._q: the bounded queue.Queue, a sequence of <<seq, text>>
    _lock,      \* MemoryBuffer._lock: NoThread or the thread holding it
    files,      \* the archive directory: file name -> contents
    th,         \* the threads: name -> record of pc, stack and locals
    wrote,      \* history: the write events of perform_merge, latest first
    hist,       \* history of the sequential client: the adds since the last drain
    snap,       \* history of the sequential client: the state when its call began
    task_queue, \* SystemManager.task_queue: the paths waiting for a worker
    _running,   \* SystemManager._running (threading.Event)
    _stop,      \* MergeManager._stop (threading.Event)
    pipe,       \* history of the pipeline: what happened around stop()
    fs          \* the directories of the audio files: input, failed, originals

vars == <<max_fragments, _map, _q, _lock, files, th, wrote, hist, snap,
          task_queue, _running, _stop, pipe, fs>>
\* what the sequential client records
clientv == <<hist, snap>>
\* the state of SystemManager and MergeManager outside the buffer
pipev == <<task_queue, _running, _stop, pipe>>
\* what no step of MemoryBuffer or perform_merge changes
rest == <<max_fragments, fs, clientv, pipev>>

-----------------------------------------------------------------------------
(* Bounds and program constants *)

\* the capacity of the buffer of the sequential client
CapSeq == 3
\* MergeManager.disk_threshold_gb (default of the constructor)
disk_threshold_gb == 1
\* the largest free space, in GB, that shutil.disk_usage reports in the model
MaxFreeGb == 1
\* the calls the sequential client makes
MaxCalls == 4
\* the capacity of the buffer the concurrent writers share
CapRace == 2
\* the adds of each concurrent writer
MaxRaceAdds == 2
\* the capacity of the buffer of the pipeline
CapPipe == 1
\* max_fragments of the buffer that is drained and filled again
CapRefill == 2
\* the largest max_workers of the pipeline
MaxWorkers == 2

\* shutil.disk_usage raised: has_enough_disk answers True
DiskErr == -1
FreeGbVals == {DiskErr} \cup (0..MaxFreeGb)

\* what extract_seq_from_filename returns for a name without digits
Sentinel == -1
\* Python's None as a sequence number (no int: it stands apart from every seq)
None == -2

NoThread == "-"
Whitespace == {" ", "\t"}
\* transcript texts, as sequences of characters; none holds a line break
Texts == {<<" ">>, <<"x">>, <<"y">>, <<"z">>}
SeqVals == {3, 5}
Triggers == {"manual", "timed", "stop", "buffer_full", "final"}
\* the triggers the sequential client passes
ClientTriggers == {"manual", "stop", "final"}

-----------------------------------------------------------------------------
(* Python dict, in insertion order *)

DictKeys(d) == {d[i][1] : i \in DOMAIN d}
DictHas(d, k) == k \in DictKeys(d)
DictGet(d, k) == d[CHOOSE i \in DOMAIN d : d[i][1] = k][2]
DictEntries(d) == {d[i] : i \in DOMAIN d}

\* d[k] = v: an existing key keeps its place
DictSetAppend(d, k, v) == Append(d, <<k, v>>)
DictSetKeepOld(d, k, v) == IF DictHas(d, k) THEN d ELSE Append(d, <<k, v>>)
DictSet(d, k, v) ==
    IF DictHas(d, k)
    THEN [i \in DOMAIN d |-> IF d[i][1] = k THEN <<k, v>> ELSE d[i]]
    ELSE Append(d, <<k, v>>)

\* MemoryBuffer.size
size == Len(_map)

-----------------------------------------------------------------------------
(* perform_merge: the pure part *)

MinKey(d) == CHOOSE k \in DictKeys(d) : \A j \in DictKeys(d) : k <= j
MaxKey(d) == CHOOSE k \in DictKeys(d) : \A j \in DictKeys(d) : k >= j
DictRemove(d, k) == SelectSeq(d, LAMBDA e : e[1] # k)

\* sorted(items.items(), key=lambda x: x[0])
RECURSIVE sorted_items(_)
sorted_itemsUnsorted(d) == d
sorted_items(d) ==
    IF d = <<>> THEN <<>>
    ELSE <<<<MinKey(d), DictGet(d, MinKey(d))>>>> \o sorted_items(DictRemove(d, MinKey(d)))

\* t.strip() is empty
IsBlank(t) == \A i \in DOMAIN t : t[i] \in Whitespace

\* "\n".join(texts)
RECURSIVE Join(_)
Join(ts) ==
    IF ts = <<>> THEN <<>>
    ELSE IF Len(ts) = 1 THEN ts[1]
    ELSE ts[1] \o <<"\n">> \o Join(Tail(ts))

\* "\n".join(t for _, t in sorted_items if t.strip())
RECURSIVE TextsOf(_)
TextsOf(s) ==
    IF s = <<>> THEN <<>>
    ELSE (IF IsBlank(s[1][2]) THEN <<>> ELSE <<s[1][2]>>) \o TextsOf(Tail(s))
merged_textAll(s) == Join([i \in DOMAIN s |-> s[i][2]])
merged_text(s) == Join(TextsOf(s))

\* f"{n:03d}"
Pad3(n) ==
    IF n < 0
    THEN "-" \o (IF -n < 10 THEN "0" ELSE "") \o ToString(-n)
    ELSE (IF n < 10 THEN "00" ELSE IF n < 100 THEN "0" ELSE "") \o ToString(n)

\* f"{'final' if trigger=='final' else 'full'}_{start:03d}_to_{end:03d}.txt"
fname(trigger, start, end) ==
    (IF trigger = "final" THEN "final" ELSE "full")
        \o "_" \o Pad3(start) \o "_to_" \o Pad3(end) \o ".txt"

\* has_enough_disk: free space against the threshold; True when disk_usage raises
has_enough_diskStrict(free) == IF free = DiskErr THEN TRUE ELSE free > disk_threshold_gb
has_enough_disk(free) == IF free = DiskErr THEN TRUE ELSE free >= disk_threshold_gb

-----------------------------------------------------------------------------
(* job.extract_seq_from_filename; a path is a sequence of characters *)

Digits == {"0", "1", "2", "3", "4", "5", "6", "7", "8", "9"}
DigitVal(c) ==
    CASE c = "0" -> 0 [] c = "1" -> 1 [] c = "2" -> 2 [] c = "3" -> 3 [] c = "4" -> 4
      [] c = "5" -> 5 [] c = "6" -> 6 [] c = "7" -> 7 [] c = "8" -> 8 [] c = "9" -> 9
\* int(ds) for a string of decimal digits
RECURSIVE ToInt(_)
ToInt(ds) ==
    IF ds = <<>> THEN 0
    ELSE 10 * ToInt(SubSeq(ds, 1, Len(ds) - 1)) + DigitVal(ds[Len(ds)])

\* os.path.basename: what follows the last "/"
basename(path) ==
    LET slashes == {i \in DOMAIN path : path[i] = "/"}
    IN IF slashes = {} THEN path
       ELSE SubSeq(path, (CHOOSE i \in slashes : \A j \in slashes : j <= i) + 1, Len(path))
\* os.path.splitext(name)[0]: the name up to its last ".", unless that "." leads it
splitext0(name) ==
    LET dots == {i \in DOMAIN name : name[i] = "." /\ \E j \in 1..(i - 1) : name[j] # "."}
    IN IF dots = {} THEN name
       ELSE SubSeq(name, 1, (CHOOSE i \in dots : \A j \in dots : j <= i) - 1)

\* re.search(r'(\d+)$', base): the digits that end the name
TrailingDigits(base) ==
    LET starts == {i \in DOMAIN base : \A j \in i..Len(base) : base[j] \in Digits}
    IN IF starts = {} THEN <<>>
       ELSE SubSeq(base, CHOOSE i \in starts : \A j \in starts : i <= j, Len(base))
\* re.search(r'(\d+)', base): the leftmost run of digits
FirstDigits(base) ==
    LET at == {i \in DOMAIN base : base[i] \in Digits}
    IN IF at = {} THEN <<>>
       ELSE LET a == CHOOSE i \in at : \A j \in at : i <= j
                ends == {i \in a..Len(base) : \A j \in a..i : base[j] \in Digits}
            IN SubSeq(base, a, CHOOSE i \in ends : \A j \in ends : j <= i)

extract_seq_from_filenameFirst(path) ==
    LET base == splitext0(basename(path))
    IN IF FirstDigits(base) # <<>> THEN ToInt(FirstDigits(base)) ELSE Sentinel
extract_seq_from_filename(path) ==
    LET base == splitext0(basename(path))
    IN IF TrailingDigits(base) # <<>> THEN ToInt(TrailingDigits(base))
       ELSE IF FirstDigits(base) # <<>> THEN ToInt(FirstDigits(base))
       ELSE Sentinel

-----------------------------------------------------------------------------
(* Threads *)

Thread0 ==
    [pc |-> "idle", stack |-> <<>>, seq |-> 0, text |-> <<>>, items |-> <<>>,
     i |-> 0, trigger |-> "", ret |-> "", disk |-> "", n |-> 0, k |-> 0,
     fpath |-> <<>>]

\* return from the method on top of the stack with value v
Return(r, v) == [r EXCEPT !.pc = Head(r.stack), !.stack = Tail(r.stack), !.ret = v]
\* call a method starting at label entry and returning to label cont
Call(r, entry, cont) == [r EXCEPT !.pc = entry, !.stack = <<cont>> \o r.stack]
CallAdd(r, seq, text, cont) ==
    [Call(r, "add_put", cont) EXCEPT !.seq = seq, !.text = text]
CallMerge(r, trigger, cont) ==
    [Call(Call(r, "pm_finish", cont), "cons_copy", "pm_finish") EXCEPT
        !.stack = <<"pm_finish", cont>> \o r.stack, !.trigger = trigger, !.disk = ""]

Threads == DOMAIN th
At(t, l) == th[t].pc = l

-----------------------------------------------------------------------------
(* MemoryBuffer.add *)

\* self._q.put((seq, text), timeout=2): room in the queue
AddPutUnbounded(t) ==
    /\ At(t, "add_put")
    /\ _q' = Append(_q, <<th[t].seq, th[t].text>>)
    /\ th' = [th EXCEPT ![t].pc = "add_store"]
    /\ UNCHANGED <<_map, _lock, files, wrote, rest>>
AddPut(t) ==
    /\ At(t, "add_put")
    /\ Len(_q) < max_fragments
    /\ _q' = Append(_q, <<th[t].seq, th[t].text>>)
    /\ th' = [th EXCEPT ![t].pc = "add_store"]
    /\ UNCHANGED <<_map, _lock, files, wrote, rest>>

\* the queue stayed full until the timeout: queue.Full is raised to the caller
AddFullStores(t) ==
    /\ At(t, "add_put")
    /\ Len(_q) >= max_fragments
    /\ _map' = DictSet(_map, th[t].seq, th[t].text)
    /\ th' = [th EXCEPT ![t] = Return(th[t], "Full")]
    /\ UNCHANGED <<_q, _lock, files, wrote, rest>>
AddFull(t) ==
    /\ At(t, "add_put")
    /\ Len(_q) >= max_fragments
    /\ th' = [th EXCEPT ![t] = Return(th[t], "Full")]
    /\ UNCHANGED <<_map, _q, _lock, files, wrote, rest>>

\* with self._lock: self._map[seq] = text
AddStoreLost(t) ==
    /\ At(t, "add_store")
    /\ _lock = NoThread
    /\ th' = [th EXCEPT ![t] = Return(th[t], "ok")]
    /\ UNCHANGED <<_map, _q, _lock, files, wrote, rest>>
AddStore(t) ==
    /\ At(t, "add_store")
    /\ _lock = NoThread
    /\ _map' = DictSet(_map, th[t].seq, th[t].text)
    /\ th' = [th EXCEPT ![t] = Return(th[t], "ok")]
    /\ UNCHANGED <<_q, _lock, files, wrote, rest>>

-----------------------------------------------------------------------------
(* MemoryBuffer.consume_all *)

\* with self._lock: items = dict(self._map); self._map.clear()
ConsCopyNoClear(t) ==
    /\ At(t, "cons_copy")
    /\ _lock = NoThread
    /\ th' = [th EXCEPT ![t].items = _map, ![t].pc = "cons_drain"]
    /\ UNCHANGED <<_map, _q, _lock, files, wrote, rest>>
ConsCopy(t) ==
    /\ At(t, "cons_copy")
    /\ _lock = NoThread
    /\ _map' = <<>>
    /\ th' = [th EXCEPT ![t].items = _map, ![t].pc = "cons_drain"]
    /\ UNCHANGED <<_q, _lock, files, wrote, rest>>

\* while True: self._q.get_nowait()
ConsDrain(t) ==
    /\ At(t, "cons_drain")
    /\ _q # <<>>
    /\ _q' = Tail(_q)
    /\ UNCHANGED <<_map, _lock, files, th, wrote, rest>>

\* get_nowait raises queue.Empty: return items
ConsReturnEarly(t) ==
    /\ At(t, "cons_drain")
    /\ th' = [th EXCEPT ![t] = Return(th[t], "items")]
    /\ UNCHANGED <<_map, _q, _lock, files, wrote, rest>>
ConsReturn(t) ==
    /\ At(t, "cons_drain")
    /\ _q = <<>>
    /\ th' = [th EXCEPT ![t] = Return(th[t], "items")]
    /\ UNCHANGED <<_map, _q, _lock, files, wrote, rest>>

-----------------------------------------------------------------------------
(* MemoryBuffer.requeue *)

\* with self._lock: (entered)
RqLock(t) ==
    /\ At(t, "rq_lock")
    /\ _lock = NoThread
    /\ _lock' = t
    /\ th' = [th EXCEPT ![t].pc = "rq_item", ![t].i = 1]
    /\ UNCHANGED <<_map, _q, files, wrote, rest>>

\* one round of the loop: put_nowait and the store, or queue.Full and break
RqItemNoStore(t) ==
    /\ At(t, "rq_item")
    /\ th[t].i <= Len(th[t].items)
    /\ IF Len(_q) < max_fragments
       THEN /\ _q' = Append(_q, th[t].items[th[t].i])
            /\ th' = [th EXCEPT ![t].i = @ + 1]
       ELSE /\ th' = [th EXCEPT ![t].pc = "rq_unlock"]
            /\ UNCHANGED _q
    /\ UNCHANGED <<_map, _lock, files, wrote, rest>>
RqItemBlocks(t) ==
    /\ At(t, "rq_item")
    /\ th[t].i <= Len(th[t].items)
    /\ Len(_q) < max_fragments
    /\ _q' = Append(_q, th[t].items[th[t].i])
    /\ _map' = DictSet(_map, th[t].items[th[t].i][1], th[t].items[th[t].i][2])
    /\ th' = [th EXCEPT ![t].i = @ + 1]
    /\ UNCHANGED <<_lock, files, wrote, rest>>
RqItem(t) ==
    /\ At(t, "rq_item")
    /\ th[t].i <= Len(th[t].items)
    /\ IF Len(_q) < max_fragments
       THEN /\ _q' = Append(_q, th[t].items[th[t].i])
            /\ _map' = DictSet(_map, th[t].items[th[t].i][1], th[t].items[th[t].i][2])
            /\ th' = [th EXCEPT ![t].i = @ + 1]
       ELSE /\ th' = [th EXCEPT ![t].pc = "rq_unlock"]
            /\ UNCHANGED <<_map, _q>>
    /\ UNCHANGED <<_lock, files, wrote, rest>>

\* the loop is over: leave the lock
RqLoopEnd(t) ==
    /\ At(t, "rq_item")
    /\ th[t].i > Len(th[t].items)
    /\ th' = [th EXCEPT ![t].pc = "rq_unlock"]
    /\ UNCHANGED <<_map, _q, _lock, files, wrote, rest>>

\* the lock is released and requeue returns; perform_merge then returns None
RqUnlockKeepsLock(t) ==
    /\ At(t, "rq_unlock")
    /\ th' = [th EXCEPT ![t] = Return(th[t], "None")]
    /\ UNCHANGED <<_map, _q, _lock, files, wrote, rest>>
RqUnlock(t) ==
    /\ At(t, "rq_unlock")
    /\ _lock' = NoThread
    /\ th' = [th EXCEPT ![t] = Return(th[t], "None")]
    /\ UNCHANGED <<_map, _q, files, wrote, rest>>

-----------------------------------------------------------------------------
(* MergeManager.perform_merge, after consume_all returned *)

WriteEvent(t, name, text) ==
    [by |-> t, trigger |-> th[t].trigger, items |-> th[t].items,
     name |-> name, text |-> text]
Record(w) == <<w>> \o wrote

\* if not items: return None
PmEmptyChecksDisk(t) ==
    /\ At(t, "pm_finish")
    /\ th[t].items = <<>>
    /\ th' = [th EXCEPT ![t].pc = "rq_lock", ![t].disk = "low"]
    /\ UNCHANGED <<_map, _q, _lock, files, wrote, rest>>
PmEmpty(t) ==
    /\ At(t, "pm_finish")
    /\ th[t].items = <<>>
    /\ th' = [th EXCEPT ![t] = Return(th[t], "None")]
    /\ UNCHANGED <<_map, _q, _lock, files, wrote, rest>>

\* not has_enough_disk(...): self.buffer.requeue(items); return None
PmDiskLow(t) ==
    /\ At(t, "pm_finish")
    /\ th[t].items # <<>>
    /\ \E free \in FreeGbVals :
        /\ ~has_enough_disk(free)
        /\ th' = [th EXCEPT ![t].pc = "rq_lock", ![t].disk = "low"]
    /\ UNCHANGED <<_map, _q, _lock, files, wrote, rest>>

\* with open(out_path, "w") as f: f.write(merged_text); return out_path
PmWriteNonBlankRange(t) ==
    /\ At(t, "pm_finish")
    /\ th[t].items # <<>>
    /\ \E free \in FreeGbVals :
        /\ has_enough_disk(free)
        /\ LET s == sorted_items(th[t].items)
               kept == SelectSeq(s, LAMBDA e : ~IsBlank(e[2]))
               r == IF kept = <<>> THEN s ELSE kept
               name == fname(th[t].trigger, r[1][1], r[Len(r)][1])
               text == merged_text(s)
           IN /\ files' = [n \in DOMAIN files \cup {name} |->
                              IF n = name THEN text ELSE files[n]]
              /\ wrote' = Record(WriteEvent(t, name, text))
              /\ th' = [th EXCEPT ![t] = [Return(th[t], name) EXCEPT !.disk = "ok"]]
    /\ UNCHANGED <<_map, _q, _lock, rest>>
PmWrite(t) ==
    /\ At(t, "pm_finish")
    /\ th[t].items # <<>>
    /\ \E free \in FreeGbVals :
        /\ has_enough_disk(free)
        /\ LET s == sorted_items(th[t].items)
               name == fname(th[t].trigger, s[1][1], s[Len(s)][1])
               text == merged_text(s)
           IN /\ files' = [n \in DOMAIN files \cup {name} |->
                              IF n = name THEN text ELSE files[n]]
              /\ wrote' = Record(WriteEvent(t, name, text))
              /\ th' = [th EXCEPT ![t] = [Return(th[t], name) EXCEPT !.disk = "ok"]]
    /\ UNCHANGED <<_map, _q, _lock, rest>>

\* open or write raises OSError: the exception leaves perform_merge
PmWriteFails(t) ==
    /\ At(t, "pm_finish")
    /\ th[t].items # <<>>
    /\ \E free \in FreeGbVals :
        /\ has_enough_disk(free)
        /\ th' = [th EXCEPT ![t] = [Return(th[t], "OSError") EXCEPT !.disk = "ok"]]
    /\ UNCHANGED <<_map, _q, _lock, files, wrote, rest>>

\* the steps of MemoryBuffer and perform_merge, whoever runs them
BufferStep(t) ==
    \/ AddPut(t) \/ AddFull(t) \/ AddStore(t)
    \/ ConsCopy(t) \/ ConsDrain(t) \/ ConsReturn(t)
    \/ RqLock(t) \/ RqItem(t) \/ RqLoopEnd(t) \/ RqUnlock(t)
    \/ PmEmpty(t) \/ PmDiskLow(t) \/ PmWrite(t) \/ PmWriteFails(t)

-----------------------------------------------------------------------------
(* A single caller of the buffer and the merger, as in test_buffer_basic *)

Hist0 == [adds |-> <<>>, state |-> "adding", known |-> TRUE]
Snap0 ==
    [op |-> "", map |-> <<>>, q |-> <<>>, files |-> <<>>, calls |-> 0, quiet |-> TRUE]
TakeSnap(op) ==
    [op |-> op, map |-> _map, q |-> _q, files |-> files, calls |-> snap.calls + 1,
     quiet |-> TRUE]
Unknown(state) == [adds |-> <<>>, state |-> state, known |-> FALSE]

\* buf.add(seq, text)
ClientAdd(t) ==
    /\ At(t, "idle")
    /\ snap.calls < MaxCalls
    /\ \E seq \in SeqVals, text \in Texts :
        /\ th' = [th EXCEPT ![t] = CallAdd(th[t], seq, text, "idle")]
        /\ hist' = CASE hist.state = "drained" ->
                          [adds |-> <<<<seq, text>>>>, state |-> "adding", known |-> TRUE]
                     [] hist.state = "adding" /\ hist.known ->
                          [hist EXCEPT !.adds = Append(@, <<seq, text>>)]
                     [] OTHER -> Unknown("adding")
    /\ snap' = TakeSnap("add")
    /\ UNCHANGED <<max_fragments, fs, _map, _q, _lock, files, wrote, pipev>>

\* buf.consume_all()
ClientConsume(t) ==
    /\ At(t, "idle")
    /\ snap.calls < MaxCalls
    /\ th' = [th EXCEPT ![t] = Call(th[t], "cons_copy", "idle")]
    /\ hist' = CASE hist.state = "drained" ->
                      [adds |-> <<>>, state |-> "drained", known |-> TRUE]
                 [] hist.state = "adding" -> [hist EXCEPT !.state = "drained"]
                 [] OTHER -> Unknown("drained")
    /\ snap' = TakeSnap("consume_all")
    /\ UNCHANGED <<max_fragments, fs, _map, _q, _lock, files, wrote, pipev>>

\* mgr.perform_merge(trigger)
ClientMerge(t) ==
    /\ At(t, "idle")
    /\ snap.calls < MaxCalls
    /\ \E trigger \in ClientTriggers :
        th' = [th EXCEPT ![t] = CallMerge(th[t], trigger, "idle")]
    /\ hist' = IF hist.state = "adding"
               THEN [hist EXCEPT !.state = "merged"]
               ELSE Unknown("merged")
    /\ snap' = TakeSnap("perform_merge")
    /\ UNCHANGED <<max_fragments, fs, _map, _q, _lock, files, wrote, pipev>>

\* the directories, each a function from file name to contents
Fs0 == [input |-> <<>>, failed |-> <<>>, originals |-> <<>>]

InitBuffer ==
    /\ fs = Fs0
    /\ _map = <<>>
    /\ _q = <<>>
    /\ _lock = NoThread
    /\ files = <<>>
    /\ wrote = <<>>
    /\ hist = Hist0
    /\ snap = Snap0

Pipe0 == [called |-> FALSE, buffered |-> <<>>, adds |-> FALSE, bad |-> FALSE,
          joined |-> FALSE, _seen |-> {}, save_file |-> FALSE]

InitSeq ==
    /\ InitBuffer
    /\ max_fragments = CapSeq
    /\ th = [t \in {"client"} |-> Thread0]
    /\ task_queue = <<>>
    /\ _running = FALSE
    /\ _stop = FALSE
    /\ pipe = Pipe0

NextSeq ==
    \E t \in Threads :
        \/ BufferStep(t)
        \/ ClientAdd(t)
        \/ ClientConsume(t)
        \/ ClientMerge(t)

SpecSeq == InitSeq /\ [][NextSeq]_vars

\* the same caller on a buffer of CapRefill fragments, which the sequences of
\* SeqVals can fill with distinct adds
InitRefill ==
    /\ InitBuffer
    /\ max_fragments = CapRefill
    /\ th = [t \in {"client"} |-> Thread0]
    /\ task_queue = <<>>
    /\ _running = FALSE
    /\ _stop = FALSE
    /\ pipe = Pipe0

SpecRefill == InitRefill /\ [][NextSeq]_vars

-----------------------------------------------------------------------------
(* A single caller that takes the sequence from the name of a file, as       *)
(* TranscriptionJob does, or passes None                                     *)

\* names as in test_extract_seq: digits at the end, digits in the middle, none
ClipNames ==
    {<<"c", "_", "0", "0", "1", ".", "w", "a", "v">>,
     <<"7", "b", ".", "w", "a", "v">>,
     <<"n", "o", ".", "w", "a", "v">>}
ClipTexts == {<<"x">>, <<" ">>}

\* buf.add(extract_seq_from_filename(path), text)
ClientAddFile(t) ==
    /\ At(t, "idle")
    /\ snap.calls < MaxCalls
    /\ \E path \in ClipNames, text \in ClipTexts :
        th' = [th EXCEPT ![t] =
                [CallAdd(th[t], extract_seq_from_filename(path), text, "idle")
                    EXCEPT !.fpath = path]]
    /\ hist' = Unknown("adding")
    /\ snap' = TakeSnap("add")
    /\ UNCHANGED <<max_fragments, fs, _map, _q, _lock, files, wrote, pipev>>

\* buf.add(None, text): if seq is None: return
ClientAddNone(t) ==
    /\ At(t, "idle")
    /\ snap.calls < MaxCalls
    /\ \E text \in ClipTexts :
        th' = [th EXCEPT ![t].seq = None, ![t].text = text, ![t].ret = "None",
                         ![t].fpath = <<>>]
    /\ hist' = Unknown("adding")
    /\ snap' = TakeSnap("add")
    /\ UNCHANGED <<max_fragments, fs, _map, _q, _lock, files, wrote, pipev>>

NextNames ==
    \E t \in Threads :
        \/ BufferStep(t)
        \/ ClientAddFile(t)
        \/ ClientAddNone(t)
        \/ ClientConsume(t)
        \/ ClientMerge(t)

SpecNames == InitSeq /\ [][NextNames]_vars


-----------------------------------------------------------------------------
(* Writer threads beside one merging thread, as in test_buffer_concurrent *)

-----------------------------------------------------------------------------
(* TranscriptionJob (src/src/job.py), run by a single caller on the files   *)
(* that the environment writes into the input directory                     *)

\* the files the environment writes while the jobs run
MaxWrites == 3

\* what model.generate may return: a string, None, a dict, a list
Str(cs) == [kind |-> "str", s |-> cs]
Null == [kind |-> "none"]
Dict(keys, text) == [kind |-> "dict", keys |-> keys, text |-> text]
List(items) == [kind |-> "list", items |-> items]

\* str(v), for the values that reach it: a string, None, [] and {}
str(v) ==
    CASE v.kind = "str" -> v.s
      [] v.kind = "none" -> <<"N", "o", "n", "e">>
      [] v.kind = "list" -> <<"[", "]">>
      [] v.kind = "dict" -> <<"{", "}">>
\* v or ""
OrEmpty(v) == IF v.kind = "str" THEN v.s ELSE <<>>
HasText(v) == v.kind = "dict" /\ "text" \in v.keys

parse_generate_output(res) ==
    IF res.kind = "list" /\ res.items # <<>>
    THEN IF HasText(res.items[1]) THEN OrEmpty(res.items[1].text)
         ELSE str(res.items[1])
    ELSE IF HasText(res) THEN OrEmpty(res.text)
    ELSE str(res)

\* what a call of model.generate does: it returns res, or raises
Returns(res) == [raises |-> "", res |-> res]
Raises(e) == [raises |-> e, res |-> Null]
ModelOutcomes ==
    <<Returns(Str(<<"x">>)), Returns(Str(<<>>)), Returns(Null),
      Returns(Dict({"text"}, Str(<<"x">>))), Returns(Dict({"text"}, Null)),
      Returns(Dict({}, Null)),
      Returns(List(<<>>)), Returns(List(<<Str(<<"x">>)>>)),
      Returns(List(<<Dict({"text"}, Str(<<"x">>))>>)),
      Returns(List(<<Dict({}, Null)>>)), Returns(List(<<Null>>)),
      Raises("OutOfMemoryError"), Raises("RuntimeError: CUDA"),
      Raises("RuntimeError"), Raises("Exception")>>

\* the paths the jobs are made for, and those of them that get written
JobNames ==
    {<<"c", "_", "0", "0", "1", ".", "w", "a", "v">>,
     <<"2", "0", "_", "4", "5", ".", "w", "a", "v">>,
     <<"7", "b", ".", "w", "a", "v">>,
     <<"n", "o", ".", "w", "a", "v">>}
WrittenNames ==
    {<<"7", "b", ".", "w", "a", "v">>, <<"n", "o", ".", "w", "a", "v">>}

Without(f, name) == [n \in DOMAIN f \ {name} |-> f[n]]
With(f, name, c) == [n \in DOMAIN f \cup {name} |-> IF n = name THEN c ELSE f[n]]

\* base, ext = os.path.splitext(failed_path); f"{base}_failed{ext}"
WithFailedSuffix(name) ==
    splitext0(name) \o <<"_", "f", "a", "i", "l", "e", "d">>
        \o SubSeq(name, Len(splitext0(name)) + 1, Len(name))

\* TranscriptionJob._move_to_failed; shutil.move replaces a file at the target,
\* and when it raises the exception is logged
_move_to_failed(d, path, mv) ==
    LET name == basename(path)
        failed_path == IF name \in DOMAIN d.failed THEN WithFailedSuffix(name) ELSE name
    IN IF mv # "ok" THEN d
       ELSE [d EXCEPT !.input = Without(@, path),
                      !.failed = With(@, failed_path, d.input[path])]

\* TranscriptionJob.run on the directories d: what it returns or raises, the
\* directories afterwards, and whether the model was called.  torch is FALSE
\* when the import of torch failed (torch = None): an exception in the try
\* block then makes `except torch.cuda.OutOfMemoryError` raise AttributeError
runQuarantinesEmpty(d, path, torch, out, mv) ==
    IF path \notin DOMAIN d.input
    THEN [ret |-> "ok", text |-> <<>>, fs |-> d, called |-> FALSE]
    ELSE IF d.input[path].size = 0
    THEN [ret |-> "ok", text |-> <<>>, fs |-> _move_to_failed(d, path, mv),
          called |-> FALSE]
    ELSE IF out.raises = ""
    THEN [ret |-> "ok", text |-> parse_generate_output(out.res), fs |-> d,
          called |-> TRUE]
    ELSE IF ~torch
    THEN [ret |-> "AttributeError", text |-> <<>>, fs |-> d, called |-> TRUE]
    ELSE [ret |-> "ok", text |-> <<>>, fs |-> _move_to_failed(d, path, mv),
          called |-> TRUE]
run(d, path, torch, out, mv) ==
    IF path \notin DOMAIN d.input
    THEN [ret |-> "ok", text |-> <<>>, fs |-> d, called |-> FALSE]
    ELSE IF d.input[path].size = 0
    THEN [ret |-> "ok", text |-> <<>>, fs |-> d, called |-> FALSE]
    ELSE IF out.raises = ""
    THEN [ret |-> "ok", text |-> parse_generate_output(out.res), fs |-> d,
          called |-> TRUE]
    ELSE IF ~torch
    THEN [ret |-> "AttributeError", text |-> <<>>, fs |-> d, called |-> TRUE]
    ELSE [ret |-> "ok", text |-> <<>>, fs |-> _move_to_failed(d, path, mv),
          called |-> TRUE]

\* the environment writes an audio file, empty or not, into the input directory
EnvWrite ==
    /\ hist.writes < MaxWrites
    /\ \E name \in WrittenNames, sz \in {0, 1} :
        fs' = [fs EXCEPT !.input = With(@, name, [size |-> sz, ver |-> hist.writes + 1])]
    /\ hist' = [hist EXCEPT !.writes = @ + 1]
    /\ UNCHANGED <<max_fragments, _map, _q, _lock, files, th, wrote, snap, pipev>>

\* TranscriptionJob(path, model, failed_dir).run()
\* the model has an outcome when run calls it, the move when run makes it
Readable(d, path) == path \in DOMAIN d.input /\ d.input[path].size > 0
OutcomesAt(d, path) == IF Readable(d, path) THEN DOMAIN ModelOutcomes ELSE {3}
MovesAt(d, path, torch, out) ==
    IF Readable(d, path) /\ torch /\ out.raises # "" THEN {"ok", "OSError"} ELSE {"ok"}

JobRun(t) ==
    /\ \E path \in JobNames : \E i \in OutcomesAt(fs, path) :
       \E mv \in MovesAt(fs, path, hist.torch, ModelOutcomes[i]) :
        LET r == run(fs, path, hist.torch, ModelOutcomes[i], mv)
        IN /\ th' = [th EXCEPT ![t].fpath = path,
                               ![t].seq = extract_seq_from_filename(path),
                               ![t].text = r.text, ![t].ret = r.ret]
           /\ fs' = r.fs
           /\ snap' = [op |-> "run", fs |-> fs, out |-> ModelOutcomes[i],
                       mv |-> mv, called |-> r.called]
    /\ UNCHANGED <<max_fragments, _map, _q, _lock, files, wrote, hist, pipev>>

\* no file yet, no job run yet; torch was imported or is None
InitJob ==
    /\ fs = Fs0
    /\ hist \in {[writes |-> 0, torch |-> b] : b \in BOOLEAN}
    /\ snap = [op |-> "", fs |-> Fs0, out |-> Returns(Null), mv |-> "ok",
               called |-> FALSE]
    /\ th = [t \in {"job"} |-> Thread0]
    /\ max_fragments = CapSeq
    /\ _map = <<>> /\ _q = <<>> /\ _lock = NoThread
    /\ files = <<>> /\ wrote = <<>>
    /\ task_queue = <<>> /\ _running = FALSE /\ _stop = FALSE
    /\ pipe = Pipe0

NextJob ==
    \/ EnvWrite
    \/ \E t \in Threads : JobRun(t)

SpecJob == InitJob /\ [][NextJob]_vars

-----------------------------------------------------------------------------
(* SystemManager._watcher alone: the polls of the input directory while the  *)
(* environment writes files and makes them unreadable                       *)

\* the writes of the environment and the polls of the watcher
MaxTouches == 2
MaxPolls == 3

WatchNames ==
    {<<"a", ".", "w", "a", "v">>, <<"b", ".", "W", "A", "V">>, <<"n", ".", "t", "x", "t">>}

\* fname.lower().endswith(".wav"), for the letters of the names above
Lower(c) == CASE c = "W" -> "w" [] c = "A" -> "a" [] c = "V" -> "v" [] OTHER -> c
IsWav(wav) ==
    /\ Len(wav) >= 4
    /\ [i \in 1..4 |-> Lower(wav[Len(wav) - 4 + i])] = <<".", "w", "a", "v">>

\* os.path.getmtime(fpath), None when it raises
getmtime(d, wav) == IF d.input[wav].stat THEN d.input[wav].ver ELSE None
\* self._seen.get(wav)
SeenGet(seen, wav) == IF wav \in DOMAIN seen THEN seen[wav] ELSE None

\* the environment writes a file: its modification time is new
EnvTouch ==
    /\ hist.writes < MaxTouches
    /\ \E name \in WatchNames :
        fs' = [fs EXCEPT !.input = With(@, name, [size |-> 1, ver |-> hist.writes + 1,
                                                  stat |-> TRUE])]
    /\ hist' = [hist EXCEPT !.writes = @ + 1]
    /\ UNCHANGED <<max_fragments, _map, _q, _lock, files, th, wrote, snap, pipev>>

\* a listed name stops answering os.path.getmtime (a link whose target is
\* gone, a directory entry that can no longer be read)
EnvBreak ==
    /\ \E name \in DOMAIN fs.input :
        /\ fs.input[name].stat
        /\ fs' = [fs EXCEPT !.input[name].stat = FALSE]
    /\ UNCHANGED <<max_fragments, _map, _q, _lock, files, th, wrote, clientv, pipev>>

\* SystemManager.start: self._running.set(); self._watcher_thread.start()
WsStart(t) ==
    /\ At(t, "new")
    /\ ~_running
    /\ _running' = TRUE
    /\ th' = [th EXCEPT ![t].pc = "wt_top"]
    /\ UNCHANGED <<max_fragments, fs, _map, _q, _lock, files, wrote, clientv,
                   task_queue, _stop, pipe>>

\* SystemManager.stop: self._running.clear()
WsStop ==
    /\ _running
    /\ _running' = FALSE
    /\ UNCHANGED <<max_fragments, fs, _map, _q, _lock, files, th, wrote, clientv,
                   task_queue, _stop, pipe>>

\* while self._running.is_set(): os.listdir(input_dir)
WsTop(t) ==
    /\ At(t, "wt_top")
    /\ IF ~_running
       THEN th' = [th EXCEPT ![t].pc = "done"]
       ELSE /\ th[t].k < MaxPolls
            /\ th' = [th EXCEPT ![t].pc = "wt_for", ![t].items = DOMAIN fs.input,
                                ![t].k = @ + 1]
    /\ UNCHANGED <<max_fragments, fs, _map, _q, _lock, files, wrote, clientv, pipev>>

\* the body of the for loop for one listed name; a name that has left the
\* directory since the listing does not answer getmtime either
WsFile(t) ==
    /\ At(t, "wt_for")
    /\ \E wav \in th[t].items :
        LET mtime == IF wav \in DOMAIN fs.input THEN getmtime(fs, wav) ELSE None
            seen_m == SeenGet(pipe._seen, wav)
        IN /\ th' = [th EXCEPT ![t].items = @ \ {wav}, ![t].fpath = wav]
           /\ IF IsWav(wav) /\ (seen_m = None \/ seen_m # mtime)
              THEN /\ pipe' = [pipe EXCEPT !._seen = With(@, wav, mtime)]
                   /\ task_queue' = Append(task_queue, wav)
              ELSE UNCHANGED <<pipe, task_queue>>
    /\ UNCHANGED <<max_fragments, fs, _map, _q, _lock, files, wrote, clientv,
                   _running, _stop>>

\* the listing is done: time.sleep(0.5)
WsSleep(t) ==
    /\ At(t, "wt_for")
    /\ th[t].items = {}
    /\ th' = [th EXCEPT ![t].pc = "wt_top"]
    /\ UNCHANGED <<max_fragments, fs, _map, _q, _lock, files, wrote, clientv, pipev>>

\* the manager is constructed: nothing is seen, nothing runs
InitWatch ==
    /\ fs = Fs0
    /\ hist = [writes |-> 0]
    /\ snap = Snap0
    /\ th = [t \in {"watcher"} |-> [Thread0 EXCEPT !.pc = "new", !.items = {}]]
    /\ max_fragments = CapPipe
    /\ _map = <<>> /\ _q = <<>> /\ _lock = NoThread
    /\ files = <<>> /\ wrote = <<>>
    /\ task_queue = <<>> /\ _running = FALSE /\ _stop = FALSE
    /\ pipe = [Pipe0 EXCEPT !._seen = <<>>]

NextWatch ==
    \/ EnvTouch
    \/ EnvBreak
    \/ WsStop
    \/ \E t \in Threads :
        \/ WsStart(t)
        \/ WsTop(t)
        \/ WsFile(t)
        \/ WsSleep(t)

SpecWatch == InitWatch /\ [][NextWatch]_vars

Adders == {"a1", "a2"}
Mergers == {"m"}
\* writer(start): buf.add(i, f"t{i}") for i in range(start, start + 100)
Start(t) == IF t = "a1" THEN 0 ELSE 100
TextOfAdder(t) == IF t = "a1" THEN <<"x">> ELSE <<"y">>
AddedBy(t) == {Start(t) + j : j \in 1..th[t].n}
RECURSIVE SumN(_)
SumN(S) == IF S = {} THEN 0 ELSE LET t == CHOOSE x \in S : TRUE IN th[t].n + SumN(S \ {t})

\* the next add of a writer
RaceAdd(t) ==
    /\ t \in Adders
    /\ At(t, "idle")
    /\ th[t].n < MaxRaceAdds
    /\ th' = [th EXCEPT ![t] =
                [CallAdd(th[t], Start(t) + th[t].n + 1, TextOfAdder(t), "idle")
                    EXCEPT !.n = @ + 1]]
    /\ snap' = [snap EXCEPT !.quiet = FALSE]
    /\ UNCHANGED <<max_fragments, fs, _map, _q, _lock, files, wrote, hist, pipev>>

\* the one perform_merge of the merging thread
RaceMerge(t) ==
    /\ t \in Mergers
    /\ At(t, "idle")
    /\ th' = [th EXCEPT ![t] = [CallMerge(th[t], "manual", "merged") EXCEPT !.n = @ + 1]]
    /\ snap' = [op |-> "perform_merge", map |-> <<>>, q |-> <<>>, files |-> <<>>,
                calls |-> SumN(Adders),
                quiet |-> \A a \in Adders : At(a, "idle")]
    /\ UNCHANGED <<max_fragments, fs, _map, _q, _lock, files, wrote, hist, pipev>>

InitRace ==
    /\ InitBuffer
    /\ max_fragments = CapRace
    /\ th = [t \in Adders \cup Mergers |-> Thread0]
    /\ task_queue = <<>>
    /\ _running = FALSE
    /\ _stop = FALSE
    /\ pipe = Pipe0

NextRace ==
    \E t \in Threads :
        \/ BufferStep(t)
        \/ RaceAdd(t)
        \/ RaceMerge(t)

SpecRace == InitRace /\ [][NextRace]_vars

\* every thread inside a call of the buffer or of perform_merge is scheduled
\* again and again
SpecRaceFair ==
    /\ SpecRace
    /\ \A t \in Adders \cup Mergers : WF_vars(BufferStep(t))

\* a writer adds a fragment again: the sequences of the writers overlap, as
\* when an audio file is transcribed a second time
ReAdd(t) ==
    /\ t \in Adders
    /\ At(t, "idle")
    /\ th[t].n < MaxRaceAdds
    /\ \E seq \in SeqVals :
        th' = [th EXCEPT ![t] =
                [CallAdd(th[t], seq, TextOfAdder(t), "idle") EXCEPT !.n = @ + 1]]
    /\ snap' = [snap EXCEPT !.quiet = FALSE]
    /\ UNCHANGED <<max_fragments, fs, _map, _q, _lock, files, wrote, hist, pipev>>

NextStale ==
    \E t \in Threads :
        \/ BufferStep(t)
        \/ ReAdd(t)
        \/ RaceMerge(t)

SpecStale == InitRace /\ [][NextStale]_vars

-----------------------------------------------------------------------------
(* The writers racing with threads that call consume_all, as the workers do  *)
(* with the merges of the merge thread and of the other workers             *)

\* the consume_all calls of each consuming thread
MaxConsumes == 1
Consumers == {"c1", "c2"}

\* the next add of a writer
ConcAdd(t) ==
    /\ t \in Adders
    /\ At(t, "idle")
    /\ th[t].n < MaxRaceAdds
    /\ th' = [th EXCEPT ![t] =
                [CallAdd(th[t], Start(t) + th[t].n + 1, TextOfAdder(t), "added")
                    EXCEPT !.n = @ + 1]]
    /\ UNCHANGED <<max_fragments, fs, _map, _q, _lock, files, wrote, clientv, pipev>>

\* the add returned, or raised queue.Full
ConcAdded(t) ==
    /\ At(t, "added")
    /\ th' = [th EXCEPT ![t].pc = "idle"]
    /\ hist' = [hist EXCEPT !.ok = IF th[t].ret = "ok" THEN @ \cup {th[t].seq} ELSE @]
    /\ UNCHANGED <<max_fragments, fs, _map, _q, _lock, files, wrote, snap, pipev>>

\* items = self.buffer.consume_all()
ConcConsume(t) ==
    /\ t \in Consumers
    /\ At(t, "idle")
    /\ th[t].n < MaxConsumes
    /\ th' = [th EXCEPT ![t] = [Call(th[t], "cons_copy", "consumed") EXCEPT !.n = @ + 1]]
    /\ UNCHANGED <<max_fragments, fs, _map, _q, _lock, files, wrote, clientv, pipev>>

\* consume_all returned its items to the caller
ConcConsumed(t) ==
    /\ At(t, "consumed")
    /\ th' = [th EXCEPT ![t].pc = "idle", ![t].items = <<>>]
    /\ hist' = [hist EXCEPT !.got = Append(@, th[t].items)]
    /\ UNCHANGED <<max_fragments, fs, _map, _q, _lock, files, wrote, snap, pipev>>

InitConc ==
    /\ fs = Fs0
    /\ _map = <<>> /\ _q = <<>> /\ _lock = NoThread
    /\ files = <<>> /\ wrote = <<>>
    /\ hist = [ok |-> {}, got |-> <<>>]
    /\ snap = Snap0
    /\ max_fragments = CapRace
    /\ th = [t \in Adders \cup Consumers |-> Thread0]
    /\ task_queue = <<>> /\ _running = FALSE /\ _stop = FALSE
    /\ pipe = Pipe0

NextConc ==
    \E t \in Threads :
        \/ AddPut(t) \/ AddFull(t) \/ AddStore(t)
        \/ ConsCopy(t) \/ ConsDrain(t) \/ ConsReturn(t)
        \/ ConcAdd(t) \/ ConcAdded(t)
        \/ ConcConsume(t) \/ ConcConsumed(t)

SpecConc == InitConc /\ [][NextConc]_vars

-----------------------------------------------------------------------------
(* SystemManager: the watcher, the workers, the merge thread and stop() *)

Workers == {"w1"}
\* the names of the worker threads of a pool of max_workers = 2
WorkerNames == {"w1", "w2"}
WorkerIndex(w) == IF w = "w1" THEN 1 ELSE 2
\* the .wav files that appear in the input directory: one named with a
\* sequence, one without digits
InputFiles == {<<"c", "0", "1", ".", "w", "a", "v">>, <<"n", "d", ".", "w", "a", "v">>}
\* what the model returns for a file
TextOfFile(f) == IF f # <<>> /\ f[1] = "c" THEN <<"x">> ELSE <<"y">>
JobTexts(f) == {TextOfFile(f), <<>>}

\* a worker between its first buffer.add of a fragment and the end of the retry
InAddSequence(w) ==
    th[w].pc \notin {"new", "w_loop", "w_run", "done", "dead"}
\* the locals of a call are gone once its caller has read the result; the
\* counts of the adds and of the forced merges of the task are kept
Forget(r, pc) == [Thread0 EXCEPT !.pc = pc, !.n = r.n, !.k = r.k]
\* a merge that has returned found the storage low or could not write
MergeWentBad(t) == th[t].disk = "low" \/ th[t].ret = "OSError"

\* SystemManager.start
Start_(t) ==
    /\ t = "main"
    /\ At(t, "main_start")
    /\ _running' = TRUE
    /\ th' = [x \in Threads |->
                IF x = t THEN [th[x] EXCEPT !.pc = "main_run"]
                ELSE IF x = "watcher" THEN [th[x] EXCEPT !.pc = "wt_scan"]
                ELSE IF x \in WorkerNames THEN [th[x] EXCEPT !.pc = "w_loop"]
                ELSE th[x]]
    /\ UNCHANGED <<max_fragments, fs, _map, _q, _lock, files, wrote, clientv,
                   task_queue, _stop, pipe>>

\* SystemManager.stop up to the call of merge_manager.stop():
\* self._running.clear(); self._watcher_thread.join(timeout=2), which returns
\* when the watcher has ended or after 2 s; self.executor.shutdown(wait=True),
\* which waits for nothing: the executor was given no task, the workers are
\* plain threads
StopClear(t) ==
    /\ t = "main"
    /\ At(t, "main_run")
    /\ _running' = FALSE
    /\ th' = [th EXCEPT ![t].pc = "mm_stop"]
    /\ UNCHANGED <<max_fragments, fs, _map, _q, _lock, files, wrote, clientv,
                   task_queue, _stop, pipe>>

\* MergeManager.stop: self._stop.set()
MmStopSet(t) ==
    /\ t = "main"
    /\ At(t, "mm_stop")
    /\ _stop' = TRUE
    /\ th' = [th EXCEPT ![t].pc = "mm_join"]
    /\ pipe' = [pipe EXCEPT !.called = TRUE, !.buffered = _map,
                            !.adds = \E w \in WorkerNames \cap Threads : InAddSequence(w)]
    /\ UNCHANGED <<max_fragments, fs, _map, _q, _lock, files, wrote, clientv,
                   task_queue, _running>>

\* self._thread.join(timeout=5), then self.perform_merge(trigger="stop"): the
\* join returns when the merge thread has ended or after 5 s
MmJoinNoMerge(t) ==
    /\ t = "main"
    /\ At(t, "mm_join")
    /\ th' = [th EXCEPT ![t].pc = "mm_merged"]
    /\ pipe' = [pipe EXCEPT !.joined = At("merge", "done")]
    /\ UNCHANGED <<max_fragments, fs, _map, _q, _lock, files, wrote, clientv,
                   task_queue, _running, _stop>>
MmJoin(t) ==
    /\ t = "main"
    /\ At(t, "mm_join")
    /\ th' = [th EXCEPT ![t] = CallMerge(th[t], "stop", "mm_merged")]
    /\ pipe' = [pipe EXCEPT !.joined = At("merge", "done")]
    /\ UNCHANGED <<max_fragments, fs, _map, _q, _lock, files, wrote, clientv,
                   task_queue, _running, _stop>>

\* the final merge returned or raised (the exception is logged); stop returns
MmMerged(t) ==
    /\ t = "main"
    /\ At(t, "mm_merged")
    /\ th' = [th EXCEPT ![t] = Forget(th[t], "stopped")]
    /\ pipe' = [pipe EXCEPT !.bad = @ \/ MergeWentBad(t)]
    /\ UNCHANGED <<max_fragments, fs, _map, _q, _lock, files, wrote, clientv,
                   task_queue, _running, _stop>>

\* os.listdir(self.input_dir): the files of the input directory where the
\* specification keeps one, else InputFiles
ListDir == IF DOMAIN fs.input = {} THEN InputFiles ELSE DOMAIN fs.input
\* SystemManager._watcher, inside the listing: a file that _seen does not hold
\* with its mtime is recorded and put on the task queue
WtPut(t) ==
    /\ t = "watcher"
    /\ At(t, "wt_scan")
    /\ \E f \in ListDir \ pipe._seen :
        /\ task_queue' = Append(task_queue, f)
        /\ pipe' = [pipe EXCEPT !._seen = @ \cup {f}]
    /\ UNCHANGED <<max_fragments, fs, _map, _q, _lock, files, th, wrote, clientv,
                   _running, _stop>>

\* the listing is over: time.sleep(0.5); while self._running.is_set()
WtCheck(t) ==
    /\ t = "watcher"
    /\ At(t, "wt_scan")
    /\ ~_running
    /\ th' = [th EXCEPT ![t].pc = "done"]
    /\ UNCHANGED <<max_fragments, fs, _map, _q, _lock, files, wrote, clientv, pipev>>

\* SystemManager._worker: while self._running.is_set() ends the thread
WLoop(t) ==
    /\ t \in WorkerNames
    /\ At(t, "w_loop")
    /\ ~_running
    /\ th' = [th EXCEPT ![t].pc = "done"]
    /\ UNCHANGED <<max_fragments, fs, _map, _q, _lock, files, wrote, clientv, pipev>>

\* fpath = self.task_queue.get(timeout=1); an empty queue sends the worker
\* back to the head of the loop
WGet(t) ==
    /\ t \in WorkerNames
    /\ At(t, "w_loop")
    /\ _running
    /\ task_queue # <<>>
    /\ task_queue' = Tail(task_queue)
    /\ th' = [th EXCEPT ![t].pc = "w_run", ![t].fpath = Head(task_queue),
                        ![t].seq = extract_seq_from_filename(Head(task_queue)),
                        ![t].n = 0, ![t].k = 0]
    /\ UNCHANGED <<max_fragments, fs, _map, _q, _lock, files, wrote, clientv,
                   _running, _stop, pipe>>

\* seq, text = job.run(); if text and text.strip(): self.buffer.add(seq, text)
WRun(t) ==
    /\ t \in WorkerNames
    /\ At(t, "w_run")
    /\ \E text \in JobTexts(th[t].fpath) :
        IF IsBlank(text)
        THEN /\ th' = [th EXCEPT ![t] = Forget(th[t], "w_loop")]
             /\ UNCHANGED pipe
        ELSE /\ th' = [th EXCEPT ![t] =
                        [CallAdd(th[t], th[t].seq, text, "w_added") EXCEPT !.n = 1]]
             /\ pipe' = [pipe EXCEPT !.adds = @ \/ pipe.called]
    /\ UNCHANGED <<max_fragments, fs, _map, _q, _lock, files, wrote, clientv,
                   task_queue, _running, _stop>>

\* shutil.move(fpath, <archive_dir>/originals/<basename>); an exception of
\* the move is logged
Relocated(d, fpath, mv) ==
    IF mv = "ok" /\ fpath \in DOMAIN d.input
    THEN [d EXCEPT !.input = Without(@, fpath),
                   !.originals = With(@, basename(fpath), d.input[fpath])]
    ELSE d
\* if(self.save_file): the move is tried, and succeeds or raises
ArchiveMoves == IF pipe.save_file THEN {"ok", "OSError"} ELSE {"none"}

\* the first add returned, or raised: self.merge_manager.perform_merge("buffer_full");
\* after an add that returned, the original is archived
WAddedNoMerge(t) ==
    /\ t \in WorkerNames
    /\ At(t, "w_added")
    /\ IF th[t].ret = "Full"
       THEN /\ th' = [th EXCEPT ![t] =
                        [CallAdd(th[t], th[t].seq, th[t].text, "w_retried")
                            EXCEPT !.n = @ + 1, !.k = @ + 1]]
            /\ UNCHANGED fs
       ELSE /\ th' = [th EXCEPT ![t] = Forget(th[t], "w_loop")]
            /\ \E mv \in ArchiveMoves : fs' = Relocated(fs, th[t].fpath, mv)
    /\ UNCHANGED <<max_fragments, _map, _q, _lock, files, wrote, clientv, pipev>>
WAdded(t) ==
    /\ t \in WorkerNames
    /\ At(t, "w_added")
    /\ IF th[t].ret = "Full"
       THEN /\ th' = [th EXCEPT ![t] =
                        [CallMerge(th[t], "buffer_full", "w_merged") EXCEPT !.k = @ + 1]]
            /\ UNCHANGED fs
       ELSE /\ th' = [th EXCEPT ![t] = Forget(th[t], "w_loop")]
            /\ \E mv \in ArchiveMoves : fs' = Relocated(fs, th[t].fpath, mv)
    /\ UNCHANGED <<max_fragments, _map, _q, _lock, files, wrote, clientv, pipev>>

\* the forced merge returned: self.buffer.add(seq, text) once more; an exception
\* of perform_merge is not caught in _worker and ends the thread
WMerged(t) ==
    /\ t \in WorkerNames
    /\ At(t, "w_merged")
    /\ th' = [th EXCEPT ![t] =
                IF th[t].ret = "OSError"
                THEN Forget(th[t], "dead")
                ELSE [CallAdd(th[t], th[t].seq, th[t].text, "w_retried")
                        EXCEPT !.n = @ + 1]]
    /\ pipe' = [pipe EXCEPT !.bad = @ \/ MergeWentBad(t)]
    /\ UNCHANGED <<max_fragments, fs, _map, _q, _lock, files, wrote, clientv,
                   task_queue, _running, _stop>>

\* the retry returned, or raised ("double add failed; dropping"); in both
\* cases the original is archived next
WRetried(t) ==
    /\ t \in WorkerNames
    /\ At(t, "w_retried")
    /\ th' = [th EXCEPT ![t] = Forget(th[t], "w_loop")]
    /\ \E mv \in ArchiveMoves : fs' = Relocated(fs, th[t].fpath, mv)
    /\ UNCHANGED <<max_fragments, _map, _q, _lock, files, wrote, clientv, pipev>>

\* MergeManager._loop: while not self._stop.wait(self.interval)
MWaitIgnoresStop(t) ==
    /\ t = "merge"
    /\ At(t, "m_wait")
    /\ th' = [th EXCEPT ![t].pc = "m_size"]
    /\ UNCHANGED <<max_fragments, fs, _map, _q, _lock, files, wrote, clientv, pipev>>
MWait(t) ==
    /\ t = "merge"
    /\ At(t, "m_wait")
    /\ th' = [th EXCEPT ![t].pc = IF _stop THEN "done" ELSE "m_size"]
    /\ UNCHANGED <<max_fragments, fs, _map, _q, _lock, files, wrote, clientv, pipev>>

\* if self.buffer.size() > 0: self.perform_merge(trigger="timed")
MSizeNever(t) ==
    /\ t = "merge"
    /\ At(t, "m_size")
    /\ _lock = NoThread
    /\ th' = [th EXCEPT ![t].pc = "m_wait"]
    /\ UNCHANGED <<max_fragments, fs, _map, _q, _lock, files, wrote, clientv, pipev>>
MSize(t) ==
    /\ t = "merge"
    /\ At(t, "m_size")
    /\ _lock = NoThread
    /\ th' = [th EXCEPT ![t] =
                IF size > 0
                THEN CallMerge(th[t], "timed", "m_merged")
                ELSE [th[t] EXCEPT !.pc = "m_wait"]]
    /\ UNCHANGED <<max_fragments, fs, _map, _q, _lock, files, wrote, clientv, pipev>>

\* the timed merge returned, or raised (logged by the loop)
MMergedDies(t) ==
    /\ t = "merge"
    /\ At(t, "m_merged")
    /\ th' = [th EXCEPT ![t] =
                Forget(th[t], IF th[t].ret = "OSError" THEN "done" ELSE "m_wait")]
    /\ pipe' = [pipe EXCEPT !.bad = @ \/ MergeWentBad(t)]
    /\ UNCHANGED <<max_fragments, fs, _map, _q, _lock, files, wrote, clientv,
                   task_queue, _running, _stop>>
MMerged(t) ==
    /\ t = "merge"
    /\ At(t, "m_merged")
    /\ th' = [th EXCEPT ![t] = Forget(th[t], "m_wait")]
    /\ pipe' = [pipe EXCEPT !.bad = @ \/ MergeWentBad(t)]
    /\ UNCHANGED <<max_fragments, fs, _map, _q, _lock, files, wrote, clientv,
                   task_queue, _running, _stop>>

MainStep(t) ==
    \/ Start_(t) \/ StopClear(t)
    \/ MmStopSet(t) \/ MmJoin(t) \/ MmMerged(t)
WatcherStep(t) == WtPut(t) \/ WtCheck(t)
WorkerStep(t) ==
    \/ WLoop(t) \/ WGet(t) \/ WRun(t)
    \/ WAdded(t) \/ WMerged(t) \/ WRetried(t)
MergeStep(t) == MWait(t) \/ MSize(t) \/ MMerged(t)

\* the state after SystemManager.__init__: the merge thread is running
InitPipe ==
    /\ InitBuffer
    /\ max_fragments = CapPipe
    /\ th = [t \in {"main", "watcher", "merge"} \cup Workers |->
                [Thread0 EXCEPT !.pc = CASE t = "main" -> "main_start"
                                         [] t = "merge" -> "m_wait"
                                         [] OTHER -> "new"]]
    /\ task_queue = <<>>
    /\ _running = FALSE
    /\ _stop = FALSE
    /\ pipe = Pipe0

NextPipe ==
    \E t \in Threads :
        \/ BufferStep(t)
        \/ MainStep(t)
        \/ WatcherStep(t)
        \/ WorkerStep(t)
        \/ MergeStep(t)

Spec == InitPipe /\ [][NextPipe]_vars

\* the threads are scheduled by the operating system: a worker or the merge
\* thread that can take a step takes one
SpecFair ==
    /\ Spec
    /\ \A t \in {"merge"} \cup Workers :
        WF_vars(BufferStep(t) \/ WorkerStep(t) \/ MergeStep(t))

\* the pipeline with every thread scheduled again and again: the watcher, the
\* workers, the merge thread, and the main thread once it is inside stop()
SpecStop ==
    /\ Spec
    /\ WF_vars(WatcherStep("watcher"))
    /\ \A t \in {"merge"} \cup Workers :
        WF_vars(BufferStep(t) \/ WorkerStep(t) \/ MergeStep(t))
    /\ WF_vars(BufferStep("main") \/ MmStopSet("main") \/ MmJoin("main")
                    \/ MmMerged("main"))

\* the pipeline configured with save_file = true, the audio files being in
\* the input directory
InitArchive ==
    /\ fs = [Fs0 EXCEPT !.input = [f \in InputFiles |-> [size |-> 1, ver |-> 1]]]
    /\ pipe = [Pipe0 EXCEPT !.save_file = TRUE]
    /\ _map = <<>> /\ _q = <<>> /\ _lock = NoThread
    /\ files = <<>> /\ wrote = <<>>
    /\ hist = Hist0 /\ snap = Snap0
    /\ max_fragments = CapPipe
    /\ th = [t \in {"main", "watcher", "merge"} \cup Workers |->
                [Thread0 EXCEPT !.pc = CASE t = "main" -> "main_start"
                                         [] t = "merge" -> "m_wait"
                                         [] OTHER -> "new"]]
    /\ task_queue = <<>> /\ _running = FALSE /\ _stop = FALSE

SpecArchive == InitArchive /\ [][NextPipe]_vars

\* the pipeline with max_workers = 1 or 2 and three audio files in the input
\* directory
PoolFiles == InputFiles \cup {<<"c", "0", "2", ".", "w", "a", "v">>}
InitPool ==
    /\ fs = [Fs0 EXCEPT !.input = [f \in PoolFiles |-> [size |-> 1, ver |-> 1]]]
    /\ pipe = Pipe0
    /\ _map = <<>> /\ _q = <<>> /\ _lock = NoThread
    /\ files = <<>> /\ wrote = <<>>
    /\ hist = Hist0 /\ snap = Snap0
    /\ max_fragments = CapPipe
    /\ \E max_workers \in 1..MaxWorkers :
        th = [t \in {"main", "watcher", "merge"}
                        \cup {w \in WorkerNames : WorkerIndex(w) <= max_workers} |->
                [Thread0 EXCEPT !.pc = CASE t = "main" -> "main_start"
                                         [] t = "merge" -> "m_wait"
                                         [] OTHER -> "new"]]
    /\ task_queue = <<>> /\ _running = FALSE /\ _stop = FALSE

\* the steps of the pipeline between start() and stop()
NextPool ==
    \E t \in Threads :
        \/ BufferStep(t)
        \/ Start_(t)
        \/ WtPut(t)
        \/ WGet(t) \/ WRun(t) \/ WAdded(t) \/ WMerged(t) \/ WRetried(t)
        \/ MergeStep(t)

SpecPool == InitPool /\ [][NextPool]_vars

\* the fragments the workers can admit
PipeEntries == {<<extract_seq_from_filename(f), TextOfFile(f)>> : f \in InputFiles}
\* some merge so far found the storage low or could not write its file
StorageBad == pipe.bad \/ \E t \in Threads : MergeWentBad(t)
\* stop() of the merge manager is past its join: the final merge has begun
FinalMergeBegun == pipe.called /\ ~At("main", "mm_join")

-----------------------------------------------------------------------------
(* Reading the history *)

Range(s) == {s[i] : i \in DOMAIN s}
Distinct(adds) == \A i, j \in DOMAIN adds : i # j => adds[i][1] # adds[j][1]
\* the text of the last add of sequence k
Latest(adds, k) ==
    adds[CHOOSE i \in DOMAIN adds :
            /\ adds[i][1] = k
            /\ \A j \in DOMAIN adds : adds[j][1] = k => j <= i][2]

\* text.split("\n"); a file without contents has no line
RECURSIVE Split(_)
Split(cs) ==
    IF \A i \in DOMAIN cs : cs[i] # "\n" THEN <<cs>>
    ELSE LET n == CHOOSE i \in DOMAIN cs :
                    cs[i] = "\n" /\ \A j \in 1..(i - 1) : cs[j] # "\n"
         IN <<SubSeq(cs, 1, n - 1)>> \o Split(SubSeq(cs, n + 1, Len(cs)))
Lines(cs) == IF cs = <<>> THEN <<>> ELSE Split(cs)

\* the sequences of d whose text is not blank
NonBlankKeys(d) == {k \in DictKeys(d) : ~IsBlank(DictGet(d, k))}

\* the lines of a written file are the non-blank texts of items, sequences ascending
LinesAscending(items, text) ==
    LET lines == Lines(text)
    IN /\ Len(lines) = Cardinality(NonBlankKeys(items))
       /\ \E f \in [DOMAIN lines -> NonBlankKeys(items)] :
            /\ \A i, j \in DOMAIN lines : i < j => f[i] < f[j]
            /\ \A i \in DOMAIN lines : lines[i] = DictGet(items, f[i])

Idle(t) == At(t, "idle") /\ th[t].stack = <<>>

-----------------------------------------------------------------------------
(* Claims about the buffer and the merger with a single caller (SpecSeq) *)

\* C1: after adds of pairwise distinct sequences, no more of them than
\* max_fragments and with no consume between them, size() is the number of adds;
\* consume_all() then returns exactly those entries and leaves size() at 0, and a
\* second consume_all() returns nothing.
C1_AddsThenDrain ==
    \A t \in Threads :
        (/\ Idle(t)
         /\ hist.known
         /\ Distinct(hist.adds)
         /\ Len(hist.adds) <= max_fragments)
        => /\ hist.state = "adding" => size = Len(hist.adds)
           /\ hist.state = "drained" =>
                /\ th[t].ret = "items"
                /\ DictEntries(th[t].items) = Range(hist.adds)
                /\ Len(th[t].items) = Len(hist.adds)
                /\ size = 0

\* C1 witness: consume_all has returned the entries of two adds of distinct sequences
C1_Witness ==
    \E t \in Threads :
        /\ Idle(t)
        /\ hist.known /\ hist.state = "drained"
        /\ Distinct(hist.adds)
        /\ Len(hist.adds) = 2
        /\ Len(th[t].items) = 2
        /\ size = 0

\* C3: every file perform_merge writes holds exactly the non-blank texts of the
\* fragments that merge consumed, one per line, sequences ascending, whatever the
\* order of the adds.
C3_FileSortedNonBlank ==
    /\ \A i \in DOMAIN wrote : LinesAscending(wrote[i].items, wrote[i].text)
    /\ wrote # <<>> =>
        /\ wrote[1].name \in DOMAIN files
        /\ files[wrote[1].name] = wrote[1].text

\* C3 witness: a merge wrote two fragments that were added with the larger
\* sequence first
C3_Witness ==
    \E i \in DOMAIN wrote :
        /\ Len(wrote[i].items) = 2
        /\ wrote[i].items[1][1] > wrote[i].items[2][1]
        /\ Cardinality(NonBlankKeys(wrote[i].items)) = 2
        /\ Len(Lines(wrote[i].text)) = 2

\* C4: adds with the same sequence before a consume leave one entry for that
\* sequence, with the text of the latest add, and the next perform_merge writes
\* that text once (adds 5:x, 3:y, 3:z give full_003_to_005.txt with z, then x).
C4_LatestAddWins ==
    \A t \in Threads :
        (/\ Idle(t)
         /\ hist.known
         /\ Len(hist.adds) <= max_fragments)
        => /\ hist.state = "adding" =>
                \A e \in Range(hist.adds) :
                    /\ Cardinality({i \in DOMAIN _map : _map[i][1] = e[1]}) = 1
                    /\ DictGet(_map, e[1]) = Latest(hist.adds, e[1])
           /\ (hist.state = "merged" /\ th[t].ret \notin {"None", "OSError"}) =>
                LET lines == Lines(wrote[1].text)
                    latest == {<<e[1], Latest(hist.adds, e[1])>> : e \in Range(hist.adds)}
                IN /\ wrote[1].name = th[t].ret
                   /\ \A l \in Range(lines) : \E e \in latest : e[2] = l
                   /\ \A e \in latest :
                        ~IsBlank(e[2]) =>
                            Cardinality({i \in DOMAIN lines : lines[i] = e[2]})
                                = Cardinality({d \in latest : d[2] = e[2]})

\* C4 witness: the example of the claim
C4_Witness ==
    \E t \in Threads :
        /\ Idle(t)
        /\ hist.known /\ hist.state = "merged"
        /\ hist.adds = << <<5, <<"x">> >>, <<3, <<"y">> >>, <<3, <<"z">> >> >>
        /\ th[t].ret = "full_003_to_005.txt"
        /\ files["full_003_to_005.txt"] = <<"z", "\n", "x">>

\* C5: a perform_merge (any trigger) that finds the free storage below the
\* threshold, with no other thread at the buffer, returns no path, writes no file
\* and leaves the buffer with the fragments it held before the call.
C5_LowDiskRestores ==
    \A t \in Threads :
        (/\ Idle(t)
         /\ snap.op = "perform_merge"
         /\ th[t].disk = "low")
        => /\ th[t].ret = "None"
           /\ files = snap.files
           /\ DictEntries(_map) = DictEntries(snap.map)
           /\ size = Len(snap.map)

\* C5 witness: the merge of stop() found the storage low with two fragments buffered
C5_Witness ==
    \E t \in Threads :
        /\ Idle(t)
        /\ snap.op = "perform_merge"
        /\ th[t].disk = "low"
        /\ th[t].trigger = "stop"
        /\ Len(snap.map) = 2
        /\ size = 2

\* C13: an add that finds the channel at capacity raises queue.Full and leaves
\* the mapping and the channel as they were at the call; an add that returns
\* normally has appended its fragment to the channel and stored it in the
\* mapping, and the mapping changes in no other case.
C13_FullLeavesBuffer ==
    \A t \in Threads :
        (Idle(t) /\ snap.op = "add")
        => LET e == <<th[t].seq, th[t].text>>
           IN /\ th[t].ret \in {"ok", "Full"}
              /\ th[t].ret = "Full" <=> Len(snap.q) >= max_fragments
              /\ th[t].ret = "Full" => _map = snap.map /\ _q = snap.q
              /\ th[t].ret = "ok"
                    => /\ _q = Append(snap.q, e)
                       /\ DictHas(_map, e[1]) /\ DictGet(_map, e[1]) = e[2]
              /\ _map # snap.map => _q = Append(snap.q, e)

\* C13 witness: an add of a sequence the mapping does not hold was refused by
\* the full channel
C13_Witness ==
    \E t \in Threads :
        /\ Idle(t) /\ snap.op = "add"
        /\ th[t].ret = "Full"
        /\ Len(_q) = max_fragments
        /\ ~DictHas(snap.map, th[t].seq)

\* C18: a blank fragment is left out of the contents of the file but counts
\* for its name: start and end are the least and the greatest sequence of all
\* the fragments the merge consumed, blank ones included, while the lines are
\* the texts of the non-blank ones only.
C18_BlankCountsForRange ==
    \A i \in DOMAIN wrote :
        LET w == wrote[i]
            lo == CHOOSE k \in DictKeys(w.items) : \A j \in DictKeys(w.items) : k <= j
            hi == CHOOSE k \in DictKeys(w.items) : \A j \in DictKeys(w.items) : j <= k
        IN /\ w.name \in {p \o "_" \o Pad3(lo) \o "_to_" \o Pad3(hi) \o ".txt" :
                            p \in {"full", "final"}}
           /\ Range(Lines(w.text)) =
                {DictGet(w.items, k) : k \in NonBlankKeys(w.items)}
           /\ \A l \in Range(Lines(w.text)) : ~IsBlank(l)

\* C18 witness: a merge consumed a blank fragment with the least sequence and
\* a non-blank one with the greatest, and named its file by both
C18_Witness ==
    \E i \in DOMAIN wrote :
        LET w == wrote[i]
        IN /\ DictKeys(w.items) = {3, 5}
           /\ IsBlank(DictGet(w.items, 3))
           /\ ~IsBlank(DictGet(w.items, 5))
           /\ w.name = "full_003_to_005.txt"
           /\ Lines(w.text) = <<DictGet(w.items, 5)>>

\* C19: a perform_merge that finds the buffer empty returns no path, writes no
\* file, makes no storage check and no requeue, and leaves the buffer empty.
C19_EmptyMergeNoOp ==
    /\ \A i \in DOMAIN wrote : wrote[i].items # <<>>
    /\ \A t \in Threads :
        (Idle(t) /\ snap.op = "perform_merge" /\ snap.map = <<>>)
        => /\ th[t].ret = "None"
           /\ files = snap.files
           /\ th[t].disk = ""
           /\ th[t].items = <<>>
           /\ _lock = NoThread
           /\ size = 0
           /\ _q = <<>>

\* C19 witness: perform_merge returned from an empty buffer that an earlier
\* merge had written a file from
C19_Witness ==
    \E t \in Threads :
        /\ Idle(t) /\ snap.op = "perform_merge" /\ snap.map = <<>>
        /\ th[t].ret = "None"
        /\ snap.files # <<>>
        /\ files = snap.files

\* C31: when consume_all() has returned, no add running meanwhile, the mapping
\* is empty and the channel holds nothing; the adds that follow, of distinct
\* sequences and no more of them than max_fragments, all return normally and
\* are all in the mapping.
C31_DrainedThenRefilled ==
    \A t \in Threads :
        (Idle(t) /\ hist.known)
        => /\ hist.state = "drained" => (_map = <<>> /\ Len(_q) = 0)
           /\ (/\ hist.state = "adding"
               /\ Distinct(hist.adds)
               /\ Len(hist.adds) <= max_fragments)
              => /\ th[t].ret # "Full"
                 /\ DictEntries(_map) = Range(hist.adds)
                 /\ Len(_q) = Len(hist.adds)

\* max_fragments adds of distinct sequences were admitted after a
\* consume_all had returned
C31_Witness ==
    \E t \in Threads :
        /\ Idle(t)
        /\ hist.known /\ hist.state = "adding"
        /\ Distinct(hist.adds)
        /\ Len(hist.adds) = max_fragments
        /\ snap.calls = max_fragments + 2
        /\ th[t].ret = "ok"
        /\ Len(_map) = max_fragments

\* C36 (as stated): when perform_merge has returned or raised, every fragment
\* it consumed is on a line of an archive file that was written, or is in the
\* buffer again.
C36_Original ==
    \A t \in Threads :
        (Idle(t) /\ snap.op = "perform_merge")
        => \A e \in Range(th[t].items) :
            \/ DictHas(_map, e[1]) /\ DictGet(_map, e[1]) = e[2]
            \/ IsBlank(e[2])
            \/ \E i \in DOMAIN wrote :
                 wrote[i].items = th[t].items /\ e[2] \in Range(Lines(wrote[i].text))

\* C37 (as stated): an add raises queue.Full only when the mapping holds
\* max_fragments entries.
C37_Original ==
    \A t \in Threads :
        (Idle(t) /\ snap.op = "add" /\ th[t].ret = "Full")
        => Len(snap.map) = max_fragments

\* C17 (as stated): an archive file is never written again, so every file
\* still holds what the merge that created it wrote.
C17_Original ==
    \A i \in DOMAIN wrote : files[wrote[i].name] = wrote[i].text

-----------------------------------------------------------------------------
(* Claims about writers racing with each other and with a merge (SpecRace) *)

\* C2: writers that add disjoint sequence ranges concurrently, no more than
\* max_fragments adds in all and with no consume running: once all adds have
\* returned size() is the number of adds, and consume_all() returns all of them.
C2_NoLostAdd ==
    (/\ \A a \in Adders : At(a, "idle")
     /\ SumN(Adders) <= max_fragments)
    => /\ (\A m \in Mergers : th[m].n = 0) => size = SumN(Adders)
       /\ \A m \in Mergers :
            (/\ th[m].n = 1
             /\ At(m, "pm_finish")
             /\ snap.quiet
             /\ snap.calls = SumN(Adders))
            => /\ Len(th[m].items) = SumN(Adders)
               /\ DictKeys(th[m].items) = UNION {AddedBy(a) : a \in Adders}
               /\ size = 0

\* C2 witness: both writers added, and the consume_all that began after the last
\* add returned has the max_fragments entries
C2_Witness ==
    /\ \A a \in Adders : At(a, "idle") /\ th[a].n >= 1
    /\ SumN(Adders) = max_fragments
    /\ \E m \in Mergers :
        /\ At(m, "pm_finish")
        /\ snap.quiet
        /\ snap.calls = SumN(Adders)
        /\ Len(th[m].items) = max_fragments

\* the consume_all calls, returned or past their copy, that hold sequence k
Holders(k) ==
    Cardinality({i \in DOMAIN hist.got : DictHas(hist.got[i], k)})
    + Cardinality({c \in Consumers :
                     th[c].pc \in {"cons_drain", "consumed"} /\ DictHas(th[c].items, k)})

\* C32: in every interleaving of adds of distinct sequences and consume_all
\* calls of several threads, a fragment whose add returned normally is in the
\* mapping, or else was taken by exactly one consume_all; none is taken by
\* two calls and none is in neither place.
C32_FragmentConservation ==
    \A k \in hist.ok :
        /\ Holders(k) <= 1
        /\ DictHas(_map, k) <=> Holders(k) = 0
        /\ \A i \in DOMAIN hist.got :
            DictHas(hist.got[i], k) => DictGet(hist.got[i], k) = TextOfAdder(
                IF k > Start("a2") THEN "a2" ELSE "a1")

\* both consumers have returned, each with a fragment, while a fragment added
\* since is in the mapping
C32_Witness ==
    /\ Len(hist.got) = 2
    /\ hist.got[1] # <<>> /\ hist.got[2] # <<>>
    /\ \E k \in hist.ok : DictHas(_map, k)

\* C6 as stated: whatever the writers do meanwhile, every fragment consumed by a
\* perform_merge that fails the storage check is in the buffer again when
\* perform_merge returns.
C6_Original ==
    \A m \in Mergers :
        (At(m, "merged") /\ th[m].disk = "low")
        => \A e \in Range(th[m].items) : DictHas(_map, e[1])

\* C6 amended: when perform_merge returns after a failed storage check, the
\* consumed fragments that requeue admitted (those before the first one the full
\* channel rejected) are in the buffer again with their texts; the rejected one and
\* those after it are not restored.
C6_AdmittedRestored ==
    \A m \in Mergers :
        (At(m, "merged") /\ th[m].disk = "low")
        => \A j \in DOMAIN th[m].items :
            LET e == th[m].items[j]
            IN IF j < th[m].i
               THEN DictHas(_map, e[1]) /\ DictGet(_map, e[1]) = e[2]
               ELSE ~DictHas(_map, e[1])

\* C6 witness: requeue was cut short by a channel the writers had filled
C6_Witness ==
    \E m \in Mergers :
        /\ At(m, "merged") /\ th[m].disk = "low"
        /\ th[m].items # <<>>
        /\ th[m].i <= Len(th[m].items)
        /\ Len(_q) = max_fragments

\* a thread inside add, consume_all, requeue or perform_merge
InCall(t) == th[t].stack # <<>>

\* C34: the calls of the buffer cannot deadlock: a thread inside a call can
\* take its next step, or waits for the lock while the thread that holds the
\* lock can take its next step; and every call returns (add on a full channel
\* by raising queue.Full).
C34_NoDeadlock ==
    /\ [](\A t \in Adders \cup Mergers :
            InCall(t) => \/ ENABLED BufferStep(t)
                         \/ /\ _lock \notin {NoThread, t}
                            /\ InCall(_lock)
                            /\ ENABLED BufferStep(_lock))
    /\ \A t \in Adders \cup Mergers : InCall(t) ~> ~InCall(t)

\* a writer waits for the lock that a requeue holds, with the channel full
C34_Witness ==
    /\ \E a \in Adders : At(a, "add_store") /\ ~ENABLED BufferStep(a)
    /\ \E m \in Mergers : _lock = m /\ At(m, "rq_item")
    /\ Len(_q) = max_fragments

\* C35 (as stated): a step of requeue leaves every text that is in the mapping
\* as it is. The mapping was emptied by the consume_all of the same merge, so
\* a text requeue finds there was stored by a later add.
C35_Original ==
    [][\A m \in Mergers :
        (At(m, "rq_item") /\ th'[m] # th[m])
        => \A k \in DictKeys(_map) : DictGet(_map', k) = DictGet(_map, k)]_vars

\* C33 (as stated): whatever the interleaving of add, consume_all and
\* requeue, the mapping never holds more than max_fragments entries.
C33_Original == Len(_map) <= max_fragments

\* C14: whatever the interleaving of add, consume_all and requeue, the channel
\* holds at least 0 and at most max_fragments entries.
C14_ChannelWithinCapacity == Len(_q) \in 0..max_fragments

\* C14 witness: a requeue has filled the channel to capacity while a writer is
\* about to put
C14_Witness ==
    /\ Len(_q) = max_fragments
    /\ \E m \in Mergers : th[m].disk = "low" /\ th[m].i > 1
    /\ \E a \in Adders : At(a, "add_put")

\* C15 (as stated): as long as no requeue has been called, under any
\* interleaving of add and consume_all the mapping holds no more entries than
\* the channel.
C15_Original ==
    (\A t \in Threads : th[t].disk # "low") => Len(_map) <= Len(_q)

\* C20: requeue never waits for the channel: inside its loop it can always
\* take its next step, it offers the items one by one, and the first item the
\* full channel rejects ends the loop; the items offered before are in the
\* channel and in the mapping with their texts, the rejected item and the
\* items after it are in neither.
C20_RequeueStopsAtFirstRejection ==
    \A t \in Threads :
        th[t].pc \in {"rq_item", "rq_unlock"}
        => /\ _lock = t
           /\ th[t].i \in 1..(Len(th[t].items) + 1)
           /\ At(t, "rq_item") => ENABLED (RqItem(t) \/ RqLoopEnd(t))
           /\ At(t, "rq_unlock") => ENABLED RqUnlock(t)
           /\ (At(t, "rq_unlock") /\ th[t].i <= Len(th[t].items))
                => Len(_q) = max_fragments
           /\ \A j \in DOMAIN th[t].items :
                LET e == th[t].items[j]
                IN IF j < th[t].i
                   THEN /\ e \in Range(_q)
                        /\ DictHas(_map, e[1]) /\ DictGet(_map, e[1]) = e[2]
                   ELSE /\ e \notin Range(_q)
                        /\ ~DictHas(_map, e[1])

\* C20 witness: requeue admitted its first item and the channel, filled by a
\* writer meanwhile, rejected the second
C20_Witness ==
    \E t \in Threads :
        /\ At(t, "rq_unlock")
        /\ th[t].i = 2
        /\ Len(th[t].items) = 2
        /\ Len(_q) = max_fragments

-----------------------------------------------------------------------------
(* Claims about the running pipeline and its shutdown (Spec, SpecFair) *)

InMap(e) == \E i \in DOMAIN _map : _map[i] = e
\* the write events whose file still holds the text of fragment e on a line
\* of its own
Holding(e, triggers) ==
    {i \in DOMAIN wrote :
        /\ wrote[i].trigger \in triggers
        /\ e \in Range(wrote[i].items)
        /\ wrote[i].name \in DOMAIN files
        /\ e[2] \in Range(Lines(files[wrote[i].name]))}
NamedFull(w) ==
    w.name = "full_" \o Pad3(MinKey(w.items)) \o "_to_" \o Pad3(MaxKey(w.items))
               \o ".txt"

\* C7 (as stated): once stop() has begun the final merge no worker is running
\* a transcription or is inside buffer.add or its retry, and after stop() has
\* returned with the storage sufficient the buffer is empty.
C7_Original ==
    /\ FinalMergeBegun
        => \A w \in Workers : ~At(w, "w_run") /\ ~InAddSequence(w)
    /\ (At("main", "stopped") /\ ~StorageBad) => size = 0

\* C8 (as stated): after stop() of the merge manager has returned, with no
\* merge short of storage and no add concurrent with or after the call, the
\* buffer is empty and every fragment buffered at the call is in the file of a
\* timed merge or of the final merge.
C8_Original ==
    (At("main", "stopped") /\ ~StorageBad /\ ~pipe.adds)
    => /\ size = 0
       /\ \A e \in Range(pipe.buffered) : Holding(e, {"timed", "stop"}) # {}

\* C8 (amended): the same, provided the merge thread had ended when the join
\* of stop() returned.
C8_FlushedWhenJoined ==
    (At("main", "stopped") /\ ~StorageBad /\ ~pipe.adds /\ pipe.joined)
    => /\ size = 0
       /\ \A e \in Range(pipe.buffered) : Holding(e, {"timed", "stop"}) # {}

\* C8 witness: stop() returned after a join that saw the merge thread ended,
\* a fragment was buffered at the call and the final merge wrote it
C8_Witness ==
    /\ At("main", "stopped") /\ ~StorageBad /\ ~pipe.adds /\ pipe.joined
    /\ pipe.buffered # <<>>
    /\ \E e \in Range(pipe.buffered) : Holding(e, {"stop"}) # {}

\* C9 (as stated): a worker whose first add of a fragment failed has, when it
\* is done with the fragment, performed one forced merge and two adds, and is
\* alive for its next task.
C9_Original ==
    \A w \in Workers :
        (th[w].pc \in {"w_loop", "done", "dead"} /\ th[w].k > 0)
        => th[w].k = 1 /\ th[w].n = 2 /\ ~At(w, "dead")

C16_Original ==
    \A i \in DOMAIN wrote :
        LET w == wrote[i]
        IN w.name = (IF w.trigger = "stop" THEN "final_" ELSE "full_")
                        \o Pad3(MinKey(w.items)) \o "_to_" \o Pad3(MaxKey(w.items))
                        \o ".txt"

-----------------------------------------------------------------------------
(* Claims about sequences taken from file names (SpecNames, Spec) *)

\* C11 (as stated): an add with the sentinel sequence -1 returns without
\* raising and leaves the mapping and the channel as they were at the call.
C11_Original ==
    \A t \in Threads :
        (Idle(t) /\ snap.op = "add" /\ th[t].seq = Sentinel)
        => /\ th[t].ret # "Full"
           /\ _map = snap.map
           /\ _q = snap.q

\* the archive names that carry the sentinel as start or end
SentinelNames ==
    LET seqs == {extract_seq_from_filename(f) : f \in InputFiles}
        ends == {x \in {"full", "final"} \X seqs \X seqs :
                    x[2] = Sentinel \/ x[3] = Sentinel}
    IN {x[1] \o "_" \o Pad3(x[2]) \o "_to_" \o Pad3(x[3]) \o ".txt" : x \in ends}

\* C12 (as stated): over a run of the pipeline no archive file holds the text
\* of an audio file whose name has no digits, no archive file name carries
\* -1 as its start or end, and no archive file holds a blank line.
C12_Original ==
    \A name \in DOMAIN files :
        /\ \A f \in InputFiles :
            extract_seq_from_filename(f) = Sentinel
            => TextOfFile(f) \notin Range(Lines(files[name]))
        /\ name \notin SentinelNames
        /\ \A l \in Range(Lines(files[name])) : ~IsBlank(l)

-----------------------------------------------------------------------------
(* Claims about the mutex of the buffer (SpecRace) *)

\* C28 (as stated): a step that changes the mapping or the channel is made by
\* a thread that holds the buffer's lock: while one thread holds the lock no
\* step of another thread changes _map or _q.
C28_Original ==
    [][(_lock # NoThread /\ (_q' # _q \/ _map' # _map))
       => (_lock' = _lock /\ th'[_lock] # th[_lock])]_vars

-----------------------------------------------------------------------------
(* Claims about one transcription job (SpecJob) *)

Job == "job"

\* C21: run on a path that does not exist, or whose file has zero length,
\* returns (sequence, "") without calling the model and leaves the input and
\* the quarantine directories as they were.
C21_NoFileNoCallNoMove ==
    [][(JobRun(Job) /\ ~Readable(fs, th'[Job].fpath))
       => /\ th'[Job].ret = "ok"
          /\ th'[Job].seq = extract_seq_from_filename(th'[Job].fpath)
          /\ th'[Job].text = <<>>
          /\ ~snap'.called
          /\ fs' = fs]_vars

\* a job has run on a file of zero length while the quarantine was empty
C21_Witness ==
    /\ snap.op = "run"
    /\ th[Job].fpath \in DOMAIN snap.fs.input
    /\ snap.fs.input[th[Job].fpath].size = 0
    /\ th[Job].ret = "ok"
    /\ fs = snap.fs

\* C22 (as stated): when the model raises, whatever it raises, run raises
\* nothing, returns (sequence, ""), and the file has left the input directory
\* for the quarantine directory.
C22_Original ==
    [][(JobRun(Job) /\ snap'.called /\ snap'.out.raises # "")
       => /\ th'[Job].ret = "ok"
          /\ th'[Job].text = <<>>
          /\ th'[Job].fpath \notin DOMAIN fs'.input
          /\ \E n \in DOMAIN fs'.failed : fs'.failed[n] = fs.input[th'[Job].fpath]]_vars

\* C23 (as stated): a quarantine move never replaces a file of the quarantine
\* directory: every file quarantined before is still there with its contents.
C23_Original ==
    [][\A n \in DOMAIN fs.failed :
          n \in DOMAIN fs'.failed /\ fs'.failed[n] = fs.failed[n]]_vars

\* the text that a result carries: the string itself, or the string under
\* the key "text"; nothing otherwise
TextIn(v) ==
    IF v.kind = "str" THEN v.s
    ELSE IF v.kind = "dict" /\ "text" \in v.keys /\ v.text.kind = "str" THEN v.text.s
    ELSE <<>>

\* C24 (as stated): the text of a job whose model returned is the result
\* itself for a string, its text field for a mapping, the same of the first
\* element for a sequence, and "" when the result carries no text (empty
\* sequence, mapping without text key, None, text field None).
C24_Original ==
    (snap.op = "run" /\ snap.called /\ snap.out.raises = "")
    => th[Job].text = (IF snap.out.res.kind = "list"
                       THEN IF snap.out.res.items = <<>> THEN <<>>
                            ELSE TextIn(snap.out.res.items[1])
                       ELSE TextIn(snap.out.res))

\* C25: the sequence of a job is the value of the digits that end the base
\* name of its path without extension, and it is -1 exactly when the base
\* name holds no digit.
C25_TrailingDigitsOrSentinel ==
    snap.op = "run"
    => LET base == splitext0(basename(th[Job].fpath))
           n == Len(base)
       IN /\ \A k \in 1..n :
               (/\ \A j \in (n - k + 1)..n : base[j] \in Digits
                /\ (k = n \/ base[n - k] \notin Digits))
               => th[Job].seq = ToInt(SubSeq(base, n - k + 1, n))
          /\ th[Job].seq = Sentinel <=> (\A j \in 1..n : base[j] \notin Digits)

\* a job has run on 20_45.wav, whose name holds two runs of digits
C25_Witness ==
    /\ snap.op = "run"
    /\ th[Job].fpath = <<"2", "0", "_", "4", "5", ".", "w", "a", "v">>
    /\ th[Job].seq = 45

-----------------------------------------------------------------------------
(* Claims about the watcher (SpecWatch) *)

\* C26 (as stated): handling a listed audio file, the watcher puts it on the
\* task queue if and only if _seen has no entry for its name or the entry
\* differs from the file's current modification time, and it sets the entry
\* to that time whenever it enqueues.
C26_Original ==
    [][\A t \in Threads :
        (WsFile(t) /\ IsWav(th'[t].fpath) /\ th'[t].fpath \in DOMAIN fs.input)
        => LET wav == th'[t].fpath
               enqueued == task_queue' # task_queue
           IN /\ enqueued <=> (\/ wav \notin DOMAIN pipe._seen
                               \/ pipe._seen[wav] # getmtime(fs, wav))
              /\ enqueued => /\ wav \in DOMAIN pipe'._seen
                             /\ pipe'._seen[wav] = getmtime(fs, wav)]_vars

-----------------------------------------------------------------------------
(* Claims about the worker threads and their files (Spec) *)

\* C27 (as stated): while the running flag is set no worker thread has ended:
\* whatever its task came to, the worker goes back to taking the next task.
C27_Original ==
    \A w \in Workers : _running => ~At(w, "dead")

\* C30 (as stated): a worker moves an audio file into originals only when
\* the add of its fragment returned: not after the retry raised and the
\* fragment was dropped, not after a blank transcript.
C30_Original ==
    [][\A w \in Workers :
        (th'[w] # th[w] /\ fs'.originals # fs.originals)
        => (th[w].pc \in {"w_added", "w_retried"} /\ th[w].ret = "ok")]_vars

-----------------------------------------------------------------------------
(* Claims about cancellation (SpecStop) *)

\* stop() has cleared the running flag
Stopping == ~_running /\ ~At("main", "main_start")
Ended(t) == th[t].pc \in {"done", "dead"}

-----------------------------------------------------------------------------
(* Claims about the merge loop (SpecFair) *)

MergeRaised == At("merge", "m_merged") /\ th["merge"].ret = "OSError"

\* C39: a perform_merge that raises inside the merge loop does not end the
\* loop: the thread goes back to its wait, it ends only when the stop signal
\* is set, after the failure it wakes again unless the signal is set, and
\* awake it starts a merge whenever the buffer is not empty.
C39_LoopSurvivesFailingMerge ==
    /\ [][(MergeRaised /\ th'["merge"] # th["merge"]) => th'["merge"].pc = "m_wait"]_vars
    /\ [][(At("merge", "m_size") /\ size > 0 /\ th'["merge"] # th["merge"])
            => (th'["merge"].pc = "cons_copy" /\ th'["merge"].trigger = "timed")]_vars
    /\ [](Ended("merge") => _stop)
    /\ [](MergeRaised => <>(At("merge", "m_size") \/ _stop))

\* a timed merge has raised while the loop is not stopped and a fragment is
\* in the buffer
C39_Witness ==
    /\ MergeRaised
    /\ ~_stop
    /\ size > 0

-----------------------------------------------------------------------------
(* Claims about the worker pool (SpecPool) *)

PoolWorkers == WorkerNames \cap Threads
\* consume_all of the forced merge of w has returned and the put of the retry
\* has not been tried yet
AfterForcedDrain(w) ==
    /\ th[w].k >= 1
    /\ \/ At(w, "pm_finish")
       \/ At(w, "w_merged")
       \/ At(w, "add_put") /\ th[w].n = 2
\* the retry of w has returned queue.Full
RetryFailed(w) == At(w, "w_retried") /\ th[w].ret = "Full"
\* the queue tokens that the adds of the files other than fpath put
TokensOfOthers(fpath) ==
    {<<extract_seq_from_filename(f), TextOfFile(f)>> : f \in PoolFiles \ {fpath}}

\* C38: while the storage is sufficient, the retry add after a forced
\* buffer_full merge never fails in a pool of one worker, where the queue stays
\* empty from the return of the forced consume_all to the put of the retry; in
\* a pool of two workers every token in the queue during that window was put
\* by the add of another file, so a failing retry met a queue that other
\* workers had filled again.
C38_RetryFailsOnlyAfterRefill ==
    \A w \in PoolWorkers :
        /\ (AfterForcedDrain(w) /\ ~StorageBad) =>
                /\ PoolWorkers = {w} => _q = <<>>
                /\ \A i \in DOMAIN _q : _q[i] \in TokensOfOthers(th[w].fpath)
        /\ (RetryFailed(w) /\ ~StorageBad) => PoolWorkers # {w}

\* in a pool of two workers with sufficient storage the retry of a worker
\* has failed
C38_Witness ==
    /\ ~StorageBad
    /\ \E w \in PoolWorkers : RetryFailed(w) /\ PoolWorkers # {w}

====
